---- MODULE Spec2Model ----
(***************************************************************************)
(* Model of the markdown segment splitter and renderer of cheetsheet       *)
(* (src/src/main.rs): split_segments, highlight_code and render_markdown.  *)
(*                                                                         *)
(* A string is a sequence of one-character strings.  The alphabet keeps    *)
(* the characters the code distinguishes: the backtick, the line break, a  *)
(* whitespace character that is not a line break, and an ordinary letter.  *)
(***************************************************************************)
EXTENDS Integers, Sequences, FiniteSets, TLC

VARIABLES content, rest, segments, pc, idx, out

vars == <<content, rest, segments, pc, idx, out>>

BT == "BACKTICK"   \* the backtick character
NL == "\n"
SP == " "
CH == "a"

\* Tokens of the output stream that are not characters of the document.
ESC   == "ESC"     \* a 24-bit colour escape sequence written before a styled span
RESET == "RESET"   \* the terminal reset sequence "\x1b[0m"
MD    == "MD"      \* start of one print_text call of the markdown skin

Fence      == <<BT, BT, BT>>
CloseFence == <<NL, BT, BT, BT>>

-----------------------------------------------------------------------------
(* Bounded inputs *)

MaxPieces == 6

Pieces == {Fence, <<NL>>, <<SP>>, <<CH>>, <<BT>>}

RECURSIVE PieceSeqs(_)
PieceSeqs(n) ==
    IF n = 0 THEN {<<>>}
    ELSE LET S == PieceSeqs(n - 1)
         IN  S \cup {s \o p : s \in S, p \in Pieces}

FreeInputs == PieceSeqs(MaxPieces)

\* Documents with a closed fenced block and text around it, followed or not
\* by a second block, closed or not.
Texts  == {<<>>, <<CH>>, <<CH, NL>>}
Langs  == {<<>>, <<CH>>, <<SP, CH, SP>>}
Breaks == {<<NL>>, <<NL, NL>>}
Bodies == {<<CH>>, <<CH, NL, SP, CH>>, <<BT, BT, BT, CH, NL>>}
Ends   == {<<>>, CloseFence}

Blocks == {Fence \o l \o b \o c \o e :
              l \in Langs, b \in Breaks, c \in Bodies, e \in Ends}

ClosedBlocks == {Fence \o l \o b \o c \o CloseFence :
                    l \in Langs, b \in Breaks, c \in Bodies}

BlockInputs == {t1 \o b1 \o t2 \o b2 \o t3 :
                   t1 \in Texts, b1 \in ClosedBlocks, t2 \in Texts,
                   b2 \in Blocks \cup {<<>>}, t3 \in {<<>>, <<NL, CH>>}}

Inputs == FreeInputs \cup BlockInputs

-----------------------------------------------------------------------------
(* String helpers: the std::str operations split_segments uses *)

\* &s[from..to] with 0-based byte offsets, to exclusive.
Slice(s, from, to) == SubSeq(s, from + 1, to)

\* &s[from..]
SliceFrom(s, from) == SubSeq(s, from + 1, Len(s))

\* The slice &s[from..to] is in range (otherwise Rust panics).
InRange(s, from, to) == 0 <= from /\ from <= to /\ to <= Len(s)

MatchAt(s, pat, i) ==
    /\ i + Len(pat) <= Len(s)
    /\ Slice(s, i, i + Len(pat)) = pat

\* str::find(pat).is_some()
Contains(s, pat) == \E i \in 0 .. Len(s) : MatchAt(s, pat, i)

\* str::find(pat).unwrap(): the offset of the first match.
Find(s, pat) ==
    CHOOSE i \in 0 .. Len(s) :
        /\ MatchAt(s, pat, i)
        /\ \A j \in 0 .. i - 1 : ~MatchAt(s, pat, j)

IsWhitespace(c) == c \in {SP, NL}

\* str::trim_start
RECURSIVE TrimStart(_)
TrimStart(s) ==
    IF s # <<>> /\ IsWhitespace(Head(s)) THEN TrimStart(Tail(s)) ELSE s

\* str::trim_end
RECURSIVE TrimEnd(_)
TrimEnd(s) ==
    IF s # <<>> /\ IsWhitespace(s[Len(s)])
    THEN TrimEnd(SubSeq(s, 1, Len(s) - 1))
    ELSE s

\* str::trim
Trim(s) == TrimEnd(TrimStart(s))

\* str::trim_start_matches('\n')
RECURSIVE TrimStartMatchesNL(_)
TrimStartMatchesNL(s) ==
    IF s # <<>> /\ Head(s) = NL THEN TrimStartMatchesNL(Tail(s)) ELSE s

-----------------------------------------------------------------------------
(* enum Segment *)

Text(t) == [kind |-> "Text", text |-> t, lang |-> <<>>, code |-> <<>>]

Code(l, c) == [kind |-> "Code", text |-> <<>>, lang |-> l, code |-> c]

-----------------------------------------------------------------------------
(* split_segments: the locals of one iteration of the while-let loop *)

fence_start(r) == Find(r, Fence)

before(r) == Slice(r, 0, fence_start(r))

after_fence(r) == SliceFrom(r, fence_start(r) + 3)

lang_end(r) ==
    IF Contains(after_fence(r), <<NL>>)
    THEN Find(after_fence(r), <<NL>>)
    ELSE Len(after_fence(r))

\* Faulty variant of lang: the tag is taken without trimming.
langUntrimmed(r) == Slice(after_fence(r), 0, lang_end(r))

lang(r) == Trim(Slice(after_fence(r), 0, lang_end(r)))

\* Faulty variant of code_start: the line breaks before the body are not skipped.
code_startUntrimmed(r) == SliceFrom(after_fence(r), lang_end(r))

code_start(r) == TrimStartMatchesNL(SliceFrom(after_fence(r), lang_end(r)))

\* Faulty variants of SkipClose: the scan resumes one character early, or one late.
SkipCloseShort(close) == close + 3

SkipCloseLong(close) == close + 5

\* The offset the scan resumes at, past the closing fence.
SkipClose(close) == close + 4

\* Faulty variant of Unclosed: the remainder is taken after the fence marker.
UnclosedAfterFence(r) == after_fence(r)

\* What the unclosed branch pushes: the remainder from the opening fence.
Unclosed(r) == SliceFrom(r, fence_start(r))

\* Faulty variant of PushBefore: the text before the fence is pushed even when empty.
PushBeforeAlways(segs, r) == Append(segs, Text(before(r)))

\* Text before the fence, pushed when it is not empty.
PushBefore(segs, r) ==
    IF before(r) # <<>> THEN Append(segs, Text(before(r))) ELSE segs

\* Faulty variant of PushRest: the rest is pushed even when empty.
PushRestAlways(segs, r) == Append(segs, Text(r))

\* The trailing push after the loop.
PushRest(segs, r) ==
    IF r # <<>> THEN Append(segs, Text(r)) ELSE segs

-----------------------------------------------------------------------------

Init ==
    /\ content \in Inputs
    /\ rest = content
    /\ segments = <<>>
    /\ pc = "scan"
    /\ idx = 0
    /\ out = <<>>

\* One iteration of the loop: while let Some(fence_start) = rest.find(Fence).
LoopIteration ==
    /\ pc = "scan"
    /\ Contains(rest, Fence)
    /\ IF Contains(code_start(rest), CloseFence)
       THEN LET cs    == code_start(rest)
                close == Find(cs, CloseFence)
            IN  IF InRange(cs, 0, close) /\ InRange(cs, SkipClose(close), Len(cs))
                THEN /\ segments' = Append(PushBefore(segments, rest),
                                           Code(lang(rest), Slice(cs, 0, close)))
                     /\ rest' = SliceFrom(cs, SkipClose(close))
                     /\ pc' = "scan"
                ELSE /\ pc' = "panic"
                     /\ UNCHANGED <<segments, rest>>
       ELSE /\ segments' = Append(PushBefore(segments, rest), Text(Unclosed(rest)))
            /\ rest' = <<>>
            /\ pc' = "break"
    /\ UNCHANGED <<content, idx, out>>

\* The loop ends (no fence left, or the break), the remaining text is pushed
\* and split_segments returns to render_markdown.
LoopExit ==
    /\ \/ pc = "scan" /\ ~Contains(rest, Fence)
       \/ pc = "break"
    /\ segments' = PushRest(segments, rest)
    /\ pc' = "render"
    /\ UNCHANGED <<content, rest, idx, out>>

-----------------------------------------------------------------------------
(* highlight_code and render_markdown *)

\* syntect::util::LinesWithEndings: the lines of s, each with its line break.
RECURSIVE LinesWithEndings(_)
LinesWithEndings(s) ==
    IF s = <<>> THEN <<>>
    ELSE IF Contains(s, <<NL>>)
         THEN LET n == Find(s, <<NL>>) + 1
              IN  <<Slice(s, 0, n)>> \o LinesWithEndings(SliceFrom(s, n))
         ELSE <<s>>

\* as_24_bit_terminal_escaped(&ranges, false), ranges being the result of
\* hl.highlight_line(line, &ss).unwrap_or_default(): the styled line, or
\* nothing when highlighting the line failed (the default is no ranges).
Escaped(line, failed) == IF failed THEN <<>> ELSE <<ESC>> \o line

\* print!("  {escaped}") for every line, in order.
RECURSIVE PrintLines(_, _, _)
PrintLines(lines, failing, i) ==
    IF i > Len(lines) THEN <<>>
    ELSE <<SP, SP>> \o Escaped(lines[i], i \in failing)
         \o PrintLines(lines, failing, i + 1)

\* What the tail of highlight_code writes after the last line.
AfterLines == <<RESET, NL>>

\* Faulty variant of HighlightCode: a highlighting error ends the call before the
\* reset is written.
HighlightCodeAbort(code, failing) ==
    IF failing = {}
    THEN <<NL>> \o PrintLines(LinesWithEndings(code), failing, 1) \o AfterLines
    ELSE <<NL>> \o PrintLines(LinesWithEndings(code), failing, 1)

\* Everything one call of highlight_code writes; failing is the set of the
\* lines whose highlighting returns an error.
HighlightCode(code, failing) ==
    <<NL>> \o PrintLines(LinesWithEndings(code), failing, 1) \o AfterLines

\* skin.print_text(&text): the markdown skin's rendering of text, kept as
\* the text behind a marker (the styling is the library's).
PrintText(text) == <<MD>> \o text

\* The segment the for loop of render_markdown handles next.
NextSegment(segs, i) == segs[i + 1]

\* One iteration of the for loop of render_markdown.
RenderSegment ==
    /\ pc = "render"
    /\ idx < Len(segments)
    /\ LET segment == NextSegment(segments, idx)
       IN  IF segment.kind = "Text"
           THEN out' = out \o PrintText(segment.text)
           ELSE \E failing \in SUBSET (1 .. Len(LinesWithEndings(segment.code))) :
                    out' = out \o HighlightCode(segment.code, failing)
    /\ idx' = idx + 1
    /\ UNCHANGED <<content, rest, segments, pc>>

\* The for loop is exhausted and render_markdown returns.
RenderReturn ==
    /\ pc = "render"
    /\ idx = Len(segments)
    /\ pc' = "done"
    /\ UNCHANGED <<content, rest, segments, idx, out>>

Next == LoopIteration \/ LoopExit \/ RenderSegment \/ RenderReturn

Spec == Init /\ [][Next]_vars

-----------------------------------------------------------------------------
(* Vocabulary of the properties *)

\* split_segments has just returned its vector to render_markdown.
Returned == pc = "render" /\ idx = 0

IsPrefix(p, s) == Len(p) <= Len(s) /\ SubSeq(s, 1, Len(p)) = p

IsSuffix(p, s) == Len(p) <= Len(s) /\ SubSeq(s, Len(s) - Len(p) + 1, Len(s)) = p

Last(s) == s[Len(s)]

CodeSegments == {i \in 1 .. Len(segments) : segments[i].kind = "Code"}

TextSegments == {i \in 1 .. Len(segments) : segments[i].kind = "Text"}

\* The document a segment sequence stands for when every Code segment is
\* written back as fence, language, one line break, body, line break, fence.
RECURSIVE Restore(_)
Restore(segs) ==
    IF segs = <<>> THEN <<>>
    ELSE LET s == Head(segs)
         IN  (IF s.kind = "Text" THEN s.text
              ELSE Fence \o s.lang \o <<NL>> \o s.code \o CloseFence)
             \o Restore(Tail(segs))

\* The first n characters of t are the span of a Code segment c: the fence,
\* a tag line of k characters that trims to c.lang, m >= 1 line breaks, the
\* body, a line break and the fence.
IsCodeSpan(c, t, k, m) ==
    /\ 3 + k + m + Len(c.code) + 4 <= Len(t)
    /\ t[3 + k + 1] = NL
    /\ Slice(t, 0, 3) = Fence
    /\ \A q \in 3 + k + 1 .. 3 + k + m : t[q] = NL
    /\ Slice(t, 3 + k + m, 3 + k + m + Len(c.code)) = c.code
    /\ Slice(t, 3 + k + m + Len(c.code), 3 + k + m + Len(c.code) + 4) = CloseFence
    /\ ~Contains(Slice(t, 3, 3 + k), <<NL>>)
    /\ Trim(Slice(t, 3, 3 + k)) = c.lang

\* segs is an in-order partition of t into contiguous spans: a Text
\* segment's span is its content, a Code segment's span is as IsCodeSpan says.
RECURSIVE Partitions(_, _)
Partitions(segs, t) ==
    IF segs = <<>> THEN t = <<>>
    ELSE LET s == Head(segs)
         IN  IF s.kind = "Text"
             THEN /\ IsPrefix(s.text, t)
                  /\ Partitions(Tail(segs), SliceFrom(t, Len(s.text)))
             ELSE \E k \in 0 .. Len(t) : \E m \in 1 .. Len(t) :
                      /\ IsCodeSpan(s, t, k, m)
                      /\ Partitions(Tail(segs),
                                    SliceFrom(t, 3 + k + m + Len(s.code) + 4))

-----------------------------------------------------------------------------
\* C1 (as stated): once split_segments has returned, writing every Text
\* segment as is and every Code segment as fence + language + line break +
\* body + line break + fence, in order, gives back the input exactly.
C1_ExactRoundTrip == Returned => Restore(segments) = content

\* C1 (amended): the segments are a contiguous, in-order partition of the
\* input in which a Text segment's span is its content and a Code segment's
\* span is fence + a tag line that trims to the language + one or more line
\* breaks + body + line break + fence; the part of the input already scanned
\* is partitioned that way at every step of the loop.
C1_Partition ==
    /\ IsSuffix(rest, content)
    /\ pc \in {"scan", "break"} =>
           Partitions(segments, Slice(content, 0, Len(content) - Len(rest)))
    /\ Returned => Partitions(segments, content)

\* C1 witness: a returned split with text on both sides of a block whose tag
\* line was trimmed or followed by several line breaks.
C1_Witness ==
    /\ Returned
    /\ Len(segments) >= 3
    /\ CodeSegments # {}
    /\ Restore(segments) # content

-----------------------------------------------------------------------------
\* C2: for an input without any fence marker split_segments returns exactly
\* one Text segment holding the whole input, and no segment at all when the
\* input is empty.
C2_NoFence ==
    (Returned /\ ~Contains(content, Fence)) =>
        segments = IF content = <<>> THEN <<>> ELSE <<Text(content)>>

\* C2 witness: a returned split of an input that has backticks, but never
\* three in a row.
C2_Witness ==
    /\ Returned
    /\ ~Contains(content, Fence)
    /\ Contains(content, <<BT, BT>>)
    /\ segments = <<Text(content)>>

-----------------------------------------------------------------------------
\* The input is T1 + fence + L + line break + B + line break + fence + T2
\* with |T1| = i, |L| = j, |B| = k and the side conditions of C3.
ClosedForm(c, i, j, k) ==
    /\ i + 3 + j + 1 + k + 4 <= Len(c)
    /\ k >= 1
    /\ c[i + 3 + j + 1] = NL
    /\ c[i + 3 + j + 2] # NL
    /\ Slice(c, i + 4 + j + k, i + 8 + j + k) = CloseFence
    /\ Contains(c, Fence) /\ Find(c, Fence) = i
    /\ ~Contains(Slice(c, i + 3, i + 3 + j), <<NL>>)
    /\ ~Contains(Slice(c, i + 4 + j, i + 4 + j + k), CloseFence)
    /\ ~Contains(SliceFrom(c, i + 8 + j + k), Fence)

ClosedFormT1(c, i, j, k) == Slice(c, 0, i)
ClosedFormL(c, i, j, k)  == Slice(c, i + 3, i + 3 + j)
ClosedFormB(c, i, j, k)  == Slice(c, i + 4 + j, i + 4 + j + k)
ClosedFormT2(c, i, j, k) == SliceFrom(c, i + 8 + j + k)

\* C3: for an input of the closed form split_segments returns Text(T1) if T1
\* is not empty, then Code(L trimmed, B), then Text(T2) if T2 is not empty,
\* and nothing else.
C3_ClosedBlock ==
    (Returned /\ Contains(content, Fence)) =>
        \A i \in {Find(content, Fence)} : \A j, k \in 0 .. Len(content) :
            ClosedForm(content, i, j, k) =>
                segments =
                    (IF i > 0 THEN <<Text(ClosedFormT1(content, i, j, k))>> ELSE <<>>)
                    \o <<Code(Trim(ClosedFormL(content, i, j, k)),
                              ClosedFormB(content, i, j, k))>>
                    \o (IF ClosedFormT2(content, i, j, k) # <<>>
                        THEN <<Text(ClosedFormT2(content, i, j, k))>> ELSE <<>>)

\* C3 witness: a returned split of a closed-form input with text on both
\* sides and a language tag that has whitespace around it.
C3_Witness ==
    /\ Returned
    /\ Contains(content, Fence)
    /\ \E i \in {Find(content, Fence)} : \E j, k \in 1 .. Len(content) :
          /\ i > 0
          /\ ClosedForm(content, i, j, k)
          /\ ClosedFormT2(content, i, j, k) # <<>>
          /\ Trim(ClosedFormL(content, i, j, k)) # ClosedFormL(content, i, j, k)
          /\ Trim(ClosedFormL(content, i, j, k)) # <<>>
          /\ Len(segments) = 3

-----------------------------------------------------------------------------
\* The text after the language-tag line of the first fence of r (the line
\* break that ends the tag line excluded); empty when the tag line is the
\* last line.
AfterTagLine(r) ==
    LET af == SliceFrom(r, Find(r, Fence) + 3)
    IN  IF Contains(af, <<NL>>) THEN SliceFrom(af, Find(af, <<NL>>) + 1) ELSE <<>>

\* The scan stands at an opening fence that has no closing fence after its
\* language-tag line.
AtUnclosedFence ==
    /\ pc = "scan"
    /\ Contains(rest, Fence)
    /\ ~Contains(AfterTagLine(rest), CloseFence)

\* C4: when the scan reaches an opening fence with no closing fence after
\* its language-tag line, the step pushes as last segment the Text of the
\* whole remainder of the input from that fence on and stops the scan, and
\* from then on the segment vector does not change any more.
C4_Unclosed ==
    [][ /\ AtUnclosedFence =>
            /\ Last(segments') = Text(SliceFrom(rest, Find(rest, Fence)))
            /\ IsSuffix(Last(segments').text, content)
            /\ IsPrefix(segments, segments')
            /\ Len(segments') <= Len(segments) + 2
            /\ rest' = <<>>
            /\ pc' = "break"
        /\ pc \in {"break", "render", "done"} => segments' = segments
      ]_vars

\* C4 witness: the scan stopped at an unclosed fence after an earlier
\* segment, and the remainder it kept as text holds a later fence marker.
C4_Witness ==
    /\ pc = "break"
    /\ Len(segments) >= 2
    /\ Last(segments).kind = "Text"
    /\ IsPrefix(Fence, Last(segments).text)
    /\ Contains(SliceFrom(Last(segments).text, 3), Fence)

-----------------------------------------------------------------------------
\* C5: no Text segment of split_segments has empty content.
C5_NoEmptyText == \A i \in TextSegments : segments[i].text # <<>>

\* C5 witness: the input starts with a fence and a second block opens right
\* after the first one's closing fence; both became Code segments.
C5_Witness ==
    /\ Returned
    /\ Len(segments) >= 2
    /\ segments[1].kind = "Code"
    /\ segments[2].kind = "Code"

-----------------------------------------------------------------------------
\* An iteration of the loop either stops the scan or leaves a strictly
\* shorter rest, and the new rest is a suffix of the old one.
Shortens ==
    /\ IsSuffix(rest', rest)
    /\ (pc' # "scan" \/ Len(rest') < Len(rest))

\* C6: split_segments is total and terminates: no step of the scan takes a
\* slice that is out of range (the panic outcome is never reached), and every
\* iteration of the loop either stops the scan or leaves a strictly shorter
\* rest that is a suffix of the old one, so the cursor never moves back.
C6_Total ==
    /\ [](pc # "panic")
    /\ [][pc = "scan" => Shortens]_vars

\* C6 witness: split_segments returned for an input with unbalanced fences,
\* a closed block followed by a fence that is never closed.
C6_Witness ==
    /\ Returned
    /\ CodeSegments # {}
    /\ Last(segments).kind = "Text"
    /\ IsPrefix(Fence, Last(segments).text)
    /\ rest = <<>>

-----------------------------------------------------------------------------
\* C10: every Code segment has a non-empty body that does not begin with a
\* line break and holds no line break followed by three backticks.
C10_CodeBody ==
    \A i \in CodeSegments :
        /\ segments[i].code # <<>>
        /\ Head(segments[i].code) # NL
        /\ ~Contains(segments[i].code, CloseFence)

\* C10 witness: the input begins with a fenced block without content (fence,
\* line break, fence); the split returned a Code segment all the same, whose
\* body begins with that second fence.
C10_Witness ==
    /\ Returned
    /\ IsPrefix(Fence \o CloseFence, content)
    /\ CodeSegments # {}
    /\ IsPrefix(Fence, segments[1].code)

-----------------------------------------------------------------------------
(* Vocabulary of the output stream *)

\* The tokens that mark a print_text call and a terminal reset.
IsMark(x) == x \in {MD, RESET}

\* The mark a rendered segment leaves in the stream.
KindMark(seg) == IF seg.kind = "Text" THEN MD ELSE RESET

\* What the terminal shows: the stream without the escape sequences.
IsVisible(x) == x \notin {ESC, RESET}

\* The offset of the last terminal reset in o (0 when there is none).
LastReset(o) ==
    IF \E q \in 1 .. Len(o) : o[q] = RESET
    THEN CHOOSE q \in 1 .. Len(o) :
             o[q] = RESET /\ \A r \in q + 1 .. Len(o) : o[r] # RESET
    ELSE 0

\* C7: render_markdown writes the segments strictly in segment order (the
\* marks in the stream are those of the segments rendered so far, in order,
\* and the stream only grows), and once a Code segment is rendered a reset
\* stands after everything its body wrote, followed by nothing but the line
\* break, whether or not a line failed to highlight.
C7_ResetAfterCode ==
    /\ [](/\ SelectSeq(out, IsMark) = [i \in 1 .. idx |-> KindMark(segments[i])]
          /\ (idx > 0 /\ segments[idx].kind = "Code") =>
                 /\ LastReset(out) > 0
                 /\ SubSeq(out, LastReset(out) + 1, Len(out)) = <<NL>>)
    /\ [][IsPrefix(out, out')]_vars

\* C7 witness: rendering is done, the only line of a code block failed to
\* highlight, its reset was written and a Text segment was rendered after it.
C7_Witness ==
    /\ pc = "done"
    /\ Contains(out, <<NL, SP, SP, RESET, NL, MD>>)

-----------------------------------------------------------------------------
\* C8 (as stated): the step that renders a Code segment writes an empty line
\* before the first body line, every body line behind a two-space indent, and
\* an empty line after the last body line (the last body line is ended by a
\* line break and one more line break follows).
C8_BlankLines ==
    [][ (pc = "render" /\ idx' = idx + 1 /\ segments[idx'].kind = "Code") =>
            LET chunk == SubSeq(out', Len(out) + 1, Len(out'))
                vis   == SelectSeq(chunk, IsVisible)
                n     == Len(vis)
            IN  /\ n >= 3
                /\ vis[1] = NL
                /\ \A q \in 1 .. n - 2 :
                       vis[q] = NL => (vis[q + 1] = SP /\ vis[q + 2] = SP)
                /\ vis[n - 1] = NL
                /\ vis[n] = NL
      ]_vars

-----------------------------------------------------------------------------
\* The length of the language tag of a document that starts with a fence.
TagLen(c) == Find(SliceFrom(c, 3), <<NL>>)

\* A line that consists of three backticks starts at offset q of c.
FenceLineAt(c, q) ==
    /\ q >= 1 /\ q + 3 <= Len(c)
    /\ c[q] = NL
    /\ Slice(c, q, q + 3) = Fence
    /\ (q + 3 = Len(c) \/ c[q + 4] = NL)

\* c is one fenced block: an opening line of three backticks and an optional
\* tag, zero or more content lines, and a last line of three backticks.
IsFencedDoc(c) ==
    /\ IsPrefix(Fence, c)
    /\ Contains(SliceFrom(c, 3), <<NL>>)
    /\ FenceLineAt(c, Len(c) - 3)
    /\ Len(c) - 3 >= 3 + TagLen(c) + 1

\* The offset of the first line of three backticks after the opening line.
FirstFenceLine(c) ==
    CHOOSE q \in 3 + TagLen(c) + 1 .. Len(c) - 3 :
        /\ FenceLineAt(c, q)
        /\ \A r \in 3 + TagLen(c) + 1 .. q - 1 : ~FenceLineAt(c, r)

\* C9 (as stated): for a document that is one fenced block, the first
\* segment is a Code segment whose body ends just before the first line of
\* three backticks after the opening line, and the scan resumes right after
\* that line's fence.
C9_FirstFenceLineCloses ==
    (Returned /\ IsFencedDoc(content)) =>
        LET q     == FirstFenceLine(content)
            start == 3 + TagLen(content) + 1
            end   == IF q - 1 >= start THEN q - 1 ELSE start
        IN  /\ segments # <<>>
            /\ segments[1].kind = "Code"
            /\ IsSuffix(segments[1].code, Slice(content, start, end))
            /\ Partitions(Tail(segments), SliceFrom(content, q + 3))

====
